---- MODULE Spec2Model ----
(***************************************************************************)
(* Model of streamlit_app.py: a Streamlit page whose script main() is      *)
(* re-executed on every user interaction, a per-session message history    *)
(* kept in st.session_state, a tool-calling agent executor that is run     *)
(* once per submitted chat input, and the web_search tool's formatter.     *)
(*                                                                         *)
(* Python strings that are built by concatenation or formatting are        *)
(* modelled as sequences of string tokens (the literal pieces and the      *)
(* interpolated values, in order).  A chat text, and the agent input made  *)
(* from chat texts, is a sequence of pieces: Text(s), a run of printable   *)
(* characters without quote or backslash (or a literal of the source), and *)
(* single characters given by code point, AsciiChar(cp) and                *)
(* UniChar(cp, printable).                                                 *)
(* Python's None is the value None.                                        *)
(* Non-ASCII literals of the source are written in ASCII transliteration.  *)
(***************************************************************************)
EXTENDS Integers, Sequences, FiniteSets, TLC

VARIABLES
    messages,         \* st.session_state["messages"]: list of {role, content}
    session_history,  \* st.session_state["session_history"]: dict id -> ChatMessageHistory
    OPENAI_API,       \* st.session_state["OPENAI_API"] (sidebar text input)
    SERPAPI_API,      \* st.session_state["SERPAPI_API"] (sidebar text input)
    pdf_docs,         \* number of files held by the "pdf_uploader" widget
    event,            \* the interaction that started the current script run
    pc,               \* "idle": no script running; "rerun": st.rerun() was
                      \* called and the next run is pending; "plan": inside
                      \* agent_executor
    user_input,       \* value of st.chat_input in the running script
    agent_input,      \* the "input" string handed to agent_executor
    tools,            \* the tools list built by the running script
    iterations,       \* AgentExecutor's iteration counter
    decision,         \* what the last model call of the agent returned
    tool_run,         \* the registered tool run in the last Act step
    observation,      \* the last observation fed back to the model
    response,         \* value returned by chat_with_agent
    rendered,         \* what the last completed script run put on the page
    input_shown,      \* whether that run reached st.chat_input (line 156)
    results,          \* provider response given to run_with_source
    formatted,        \* string returned by run_with_source
    returned,         \* object returned by get_session_history
    session_id,       \* the id get_session_history was last called with
    appends,          \* Session Memory specification: the append calls to make
    done              \* Session Memory specification: calls made so far

vars == <<messages, session_history, OPENAI_API, SERPAPI_API, pdf_docs, event,
          pc, user_input, agent_input, tools, iterations, decision, tool_run,
          observation, response, rendered, input_shown, results, formatted,
          returned, session_id, appends, done>>

uiVars == <<OPENAI_API, SERPAPI_API, pdf_docs>>
turnVars == <<user_input, agent_input, tools, iterations, decision, tool_run,
              observation, response>>
searchVars == <<results, formatted>>
memVars == <<appends, done>>

----------------------------------------------------------------------------
(* Bounds of the model *)

MaxTurns == 3      \* chat inputs accepted while the transcript holds fewer turns
MaxOrganic == 6    \* longest organic_results list the provider returns
MaxAppends == 3    \* longest history built in the Session Memory specification

(* Program constants *)

max_iterations == 15   \* AgentExecutor(...) is built without max_iterations
TopN == 5              \* organic[:5]

None == "None"

\* A run of characters
Text(str) == [k |-> "text", s |-> str, n |-> 0, p |-> TRUE]

\* The ASCII character of code point cp; it is printable from 32 to 126
AsciiChar(cp) == [k |-> "char", s |-> "", n |-> cp, p |-> cp \in 32..126]

\* The character of code point cp >= 128; whether str.isprintable holds of
\* it is a fact of the Unicode database, given with the character
UniChar(cp, printable) == [k |-> "char", s |-> "", n |-> cp, p |-> printable]

Tab == AsciiChar(9)
Newline == AsciiChar(10)
Return == AsciiChar(13)
DoubleQuote == AsciiChar(34)
Apostrophe == AsciiChar(39)
Backslash == AsciiChar(92)

Keys == {"", "sk-key"}
\* Chat texts: with a tab; with an apostrophe; with a newline, a carriage
\* return, BEL and U+200C (not printable); with a backslash, both kinds of
\* quote, U+E0001 and U+3000 (not printable) and U+00E9 (printable)
UserInputs == { <<Text("col1"), Tab, Text("col2")>>,
                <<Text("it"), Apostrophe, Text("s")>> }
Answers == { <<Text("line1"), Newline, Text("line2"), Return, AsciiChar(7),
               UniChar(8204, FALSE)>>,
             <<Text("a"), Backslash, Text("b"), Apostrophe, DoubleQuote,
               UniChar(917505, FALSE), UniChar(233, TRUE),
               UniChar(12288, FALSE)>> }
ToolRequests == {"pdf_search", "web_search", "calculator"}
SessionIds == {"default_session", "s1"}
Roles == {"user", "assistant"}

----------------------------------------------------------------------------
(* Small sequence helpers *)

RECURSIVE Join(_, _)
\* sep.join(parts), each part a token sequence
Join(sep, parts) ==
    IF parts = <<>> THEN <<>>
    ELSE IF Len(parts) = 1 THEN Head(parts)
    ELSE Head(parts) \o <<sep>> \o Join(sep, Tail(parts))

RECURSIVE Join0(_)
\* "".join(parts)
Join0(parts) ==
    IF parts = <<>> THEN <<>> ELSE Head(parts) \o Join0(Tail(parts))

Slice(s, n) == SubSeq(s, 1, IF Len(s) < n THEN Len(s) ELSE n)

Truthy(v) == v # None /\ v # ""

----------------------------------------------------------------------------
(* Session Memory: get_session_history, ChatMessageHistory *)

EmptyDict == << >>

ChatMessageHistory == [messages |-> << >>]

Message(role, content) == [role |-> role, content |-> content]

\* (variant) a new history is stored on every lookup
get_session_history_fresh(sh, session_ids) ==
    (session_ids :> ChatMessageHistory) @@ sh

get_session_history(sh, session_ids) ==
    IF session_ids \notin DOMAIN sh
    THEN sh @@ (session_ids :> ChatMessageHistory)
    ELSE sh

\* (variant) the message is put in front
add_message_front(h, msg) == [h EXCEPT !.messages = <<msg>> \o @]

add_message(h, msg) == [h EXCEPT !.messages = Append(@, msg)]

\* (variant) the reset keeps the stored histories
clear_all_keep(sh) == sh

\* st.session_state["session_history"] = {} (line 108)
clear_all(sh) == EmptyDict

\* The messages recorded for a session, empty when the id is not a key
HistoryOf(sh, id) == IF id \in DOMAIN sh THEN sh[id].messages ELSE << >>

----------------------------------------------------------------------------
(* Web search tool: run_with_source *)

NoResults == "geomsaek gyeolgwaga eopsseumnida."

format_result(r) ==
    IF Truthy(r.link)
    THEN <<"- [", r.title, "](", r.link, ") (", r.source, ")\n  ", r.snippet>>
    ELSE <<"- ", r.title, " (chulcheo: ", r.source, ")\n  ", r.snippet>>

organic_of(res) == IF res.has_organic THEN res.organic_results ELSE << >>

\* (variant) every organic result is rendered
run_with_source_all(res) ==
    LET organic == organic_of(res)
        fmt == [i \in 1..Len(organic) |-> format_result(organic[i])]
    IN IF fmt # << >> THEN Join("\n", fmt) ELSE <<NoResults>>

run_with_source(res) ==
    LET organic == Slice(organic_of(res), TopN)
        fmt == [i \in 1..Len(organic) |-> format_result(organic[i])]
    IN IF fmt # << >> THEN Join("\n", fmt) ELSE <<NoResults>>

----------------------------------------------------------------------------
(* One turn: the input handed to the agent, lines 159-166 *)

DefaultSession == "default_session"

PrevHeader == Text("\n\nPrevious Messages: ")

\* The quote repr() wraps a text in: a double quote when the text holds an
\* apostrophe and no double quote, else an apostrophe
ReprQuote(text) ==
    IF (\E i \in 1..Len(text) : text[i] = Apostrophe)
         /\ ~(\E i \in 1..Len(text) : text[i] = DoubleQuote)
    THEN DoubleQuote ELSE Apostrophe

HexDigits ==
    <<"0", "1", "2", "3", "4", "5", "6", "7", "8", "9", "a", "b", "c", "d",
      "e", "f">>

\* n written with w lower-case hex digits
RECURSIVE Hex(_, _)
Hex(n, w) ==
    IF w = 0 THEN << >>
    ELSE Hex(n \div 16, w - 1) \o <<Text(HexDigits[(n % 16) + 1])>>

\* repr() of one piece inside quotes q: backslash, the wrapping quote,
\* tab, newline and carriage return get a backslash escape; any other
\* character that is not printable is written \xNN below U+0100, \uNNNN
\* below U+10000 and \UNNNNNNNN above; the rest is written as it is
ReprPiece(piece, q) ==
    IF piece.k = "text" THEN <<piece>>
    ELSE IF piece = Backslash THEN <<Backslash, Backslash>>
    ELSE IF piece = q THEN <<Backslash, piece>>
    ELSE IF piece = Tab THEN <<Backslash, Text("t")>>
    ELSE IF piece = Newline THEN <<Backslash, Text("n")>>
    ELSE IF piece = Return THEN <<Backslash, Text("r")>>
    ELSE IF ~piece.p
         THEN IF piece.n < 256 THEN <<Backslash, Text("x")>> \o Hex(piece.n, 2)
              ELSE IF piece.n < 65536
                   THEN <<Backslash, Text("u")>> \o Hex(piece.n, 4)
                   ELSE <<Backslash, Text("U")>> \o Hex(piece.n, 8)
    ELSE <<piece>>

\* repr() of a str
Repr(text) ==
    LET q == ReprQuote(text)
    IN <<q>> \o Join0([i \in 1..Len(text) |-> ReprPiece(text[i], q)]) \o <<q>>

\* str() of one {"role": ..., "content": ...} dict
StrDict(m) ==
    <<Text("{'role': ")>> \o Repr(<<Text(m.role)>>)
      \o <<Text(", 'content': ")>> \o Repr(m.content) \o <<Text("}")>>

\* str() of the prev_msgs list
StrList(msgs) ==
    <<Text("[")>>
      \o Join(Text(", "), [i \in 1..Len(msgs) |-> StrDict(msgs[i])])
      \o <<Text("]")>>

\* (variant) the earlier messages are left out
AgentInput_no_history(u, hist) == u

AgentInput(u, hist) ==
    IF hist # << >>
    THEN LET prev_msgs == [i \in 1..Len(hist) |->
                             [role |-> hist[i].role, content |-> hist[i].content]]
         IN u \o <<PrevHeader>> \o StrList(prev_msgs)
    ELSE u

BuildTools(docs) ==
    IF docs > 0 THEN <<"pdf_search", "web_search">> ELSE <<"web_search">>

----------------------------------------------------------------------------
(* AgentExecutor(agent=agent, tools=tools, verbose=True), run by           *)
(* chat_with_agent.  The executor is built with the library defaults:      *)
(* max_iterations = 15, early_stopping_method = "force",                   *)
(* no handle_parsing_errors, and tools without handle_tool_error.  Its     *)
(* loop asks the model for a decision while iterations < max_iterations;   *)
(* a final answer is returned as result["output"]; a requested tool is     *)
(* looked up by name and run, an unknown name yields the InvalidTool       *)
(* observation; an exception of the model call or of a tool is not caught. *)
(* When the budget is used up the executor returns StoppedResponse (the   *)
(* text of an agent that may request several tools at once, which is what  *)
(* create_tool_calling_agent builds) as result["output"].                                                       *)

StoppedResponse == <<Text("Agent stopped due to max iterations.")>>

NoDecision == [kind |-> "none", tool |-> None, output |-> None]
NoRun == [tool |-> None, raised |-> FALSE]

\* (variant) every requested name is taken to be registered
InRegistry_any(name, reg) == TRUE

InRegistry(name, reg) == \E i \in 1..Len(reg) : reg[i] = name

InvalidToolObservation(name, reg) ==
    <<name, " is not a valid tool, try one of [">>
      \o Join(", ", [i \in 1..Len(reg) |-> <<reg[i]>>]) \o <<"].">>

Result1 == [title |-> "t1", link |-> "http://l1", source |-> "s1", snippet |-> "n1"]
Result2 == [title |-> "t2", link |-> None, source |-> "s2", snippet |-> "n2"]
Result3 == [title |-> "t3", link |-> "", source |-> None, snippet |-> None]

\* Provider responses used inside a turn
TurnResponses ==
    { [has_organic |-> FALSE, organic_results |-> << >>],
      [has_organic |-> TRUE, organic_results |-> <<Result1>>] }

\* The strings a registered tool can return
ToolOutputs(name) ==
    IF name = "web_search"
    THEN { run_with_source(r) : r \in TurnResponses }
    ELSE { <<"pdf chunk">> }

KeysPresent == Truthy(OPENAI_API) /\ Truthy(SERPAPI_API)

\* A script run may start when none is running
Ready == pc \in {"idle", "rerun"}

\* What a script run without chat input renders.  With both keys the run
\* first builds the tools, the model and the executor (lines 113-153:
\* load_pdf_files, search_web, ChatOpenAI, create_tool_calling_agent,
\* AgentExecutor); none of it is guarded, so when it raises (setup_ok
\* false) the exception leaves main() before line 156.  Otherwise the run
\* prints the messages (line 174) or the warning (line 177).
Render(o, s, setup_ok) ==
    IF Truthy(o) /\ Truthy(s)
    THEN IF setup_ok THEN "chat" ELSE "exception"
    ELSE "warning"

\* Whether such a run reaches st.chat_input (line 156)
ReachesChatInput(o, s, setup_ok) == Truthy(o) /\ Truthy(s) /\ setup_ok

\* Locals of a script run that handles no turn
NoTurn ==
    /\ user_input' = None
    /\ agent_input' = << >>
    /\ tools' = << >>
    /\ iterations' = 0
    /\ decision' = NoDecision
    /\ tool_run' = NoRun
    /\ observation' = << >>
    /\ response' = None

Init ==
    /\ messages = << >>
    /\ session_history = EmptyDict
    /\ OPENAI_API = ""
    /\ SERPAPI_API = ""
    /\ pdf_docs = 0
    /\ event = "load"
    /\ pc = "idle"
    /\ user_input = None
    /\ agent_input = << >>
    /\ tools = << >>
    /\ iterations = 0
    /\ decision = NoDecision
    /\ tool_run = NoRun
    /\ observation = << >>
    /\ response = None
    /\ rendered = "warning"
    /\ input_shown = FALSE
    /\ results = [has_organic |-> FALSE, organic_results |-> << >>]
    /\ formatted = << >>
    /\ returned = ChatMessageHistory
    /\ session_id = None
    /\ appends = << >>
    /\ done = 0

----------------------------------------------------------------------------
(* Script runs that handle no turn *)

\* The user edits the two key fields of the sidebar (lines 100-101)
EnterKeys(o, s, setup_ok) ==
    /\ Ready
    /\ <<o, s>> # <<OPENAI_API, SERPAPI_API>>
    /\ setup_ok \/ (Truthy(o) /\ Truthy(s))
    /\ OPENAI_API' = o
    /\ SERPAPI_API' = s
    /\ event' = "keys"
    /\ rendered' = Render(o, s, setup_ok)
    /\ input_shown' = ReachesChatInput(o, s, setup_ok)
    /\ pc' = "idle"
    /\ NoTurn
    /\ UNCHANGED <<messages, session_history, pdf_docs, searchVars,
                   returned, session_id, memVars>>

\* The user changes the uploaded files (line 103)
UploadPdf(n, setup_ok) ==
    /\ Ready
    /\ n # pdf_docs
    /\ setup_ok \/ KeysPresent
    /\ pdf_docs' = n
    /\ event' = "upload"
    /\ rendered' = Render(OPENAI_API, SERPAPI_API, setup_ok)
    /\ input_shown' = ReachesChatInput(OPENAI_API, SERPAPI_API, setup_ok)
    /\ pc' = "idle"
    /\ NoTurn
    /\ UNCHANGED <<messages, session_history, OPENAI_API, SERPAPI_API,
                   searchVars, returned, session_id, memVars>>

\* The reset button (lines 106-109): the run clears both stores and stops
\* at st.rerun(); the page is not redrawn until the next run
ClickReset ==
    /\ Ready
    /\ messages' = << >>
    /\ session_history' = clear_all(session_history)
    /\ event' = "reset"
    /\ pc' = "rerun"
    /\ NoTurn
    /\ UNCHANGED <<uiVars, rendered, input_shown, searchVars, returned,
                   session_id, memVars>>

\* The run that st.rerun() asked for, when no widget event came in between
Rerun(setup_ok) ==
    /\ pc = "rerun"
    /\ setup_ok \/ KeysPresent
    /\ event' = "rerun"
    /\ rendered' = Render(OPENAI_API, SERPAPI_API, setup_ok)
    /\ input_shown' = ReachesChatInput(OPENAI_API, SERPAPI_API, setup_ok)
    /\ pc' = "idle"
    /\ NoTurn
    /\ UNCHANGED <<messages, session_history, uiVars, searchVars, returned,
                   session_id, memVars>>

----------------------------------------------------------------------------
(* A turn *)

\* Lines 112-166 up to the call of the executor
SubmitInput(u) ==
    /\ Ready
    /\ KeysPresent
    /\ input_shown
    /\ Len(messages) < 2 * MaxTurns
    /\ event' = "submit"
    /\ user_input' = u
    /\ tools' = BuildTools(pdf_docs)
    /\ session_history' = get_session_history(session_history, DefaultSession)
    /\ returned' = session_history'[DefaultSession]
    /\ agent_input' = AgentInput(u, returned'.messages)
    /\ iterations' = 0
    /\ decision' = NoDecision
    /\ tool_run' = NoRun
    /\ observation' = << >>
    /\ response' = None
    /\ pc' = "plan"
    /\ session_id' = DefaultSession
    /\ UNCHANGED <<messages, uiVars, rendered, input_shown, searchVars, memVars>>

\* A chat input is submitted and the run fails while building the tools,
\* the model or the executor (lines 117-153): line 156 is not reached
SubmitInputSetupFails(u) ==
    /\ Ready
    /\ KeysPresent
    /\ input_shown
    /\ Len(messages) < 2 * MaxTurns
    /\ event' = "submit"
    /\ rendered' = "exception"
    /\ input_shown' = FALSE
    /\ pc' = "idle"
    /\ NoTurn
    /\ UNCHANGED <<messages, session_history, uiVars, searchVars, returned,
                   session_id, memVars>>

\* (variant) the assistant message is recorded before the user message
RecordTurn_swapped(sh, u, ain, out) ==
    [sh EXCEPT ![DefaultSession] =
        add_message(add_message(@, Message("assistant", out)),
                    Message("user", u))]

\* Lines 171-172
RecordTurn(sh, u, ain, out) ==
    [sh EXCEPT ![DefaultSession] =
        add_message(add_message(@, Message("user", u)),
                    Message("assistant", out))]

\* Lines 168-174 after chat_with_agent returned out
CompleteTurn(out) ==
    /\ response' = out
    /\ messages' = Append(Append(messages, Message("user", user_input)),
                          Message("assistant", out))
    /\ session_history' = RecordTurn(session_history, user_input, agent_input, out)
    /\ rendered' = "chat"
    /\ pc' = "idle"

\* The exception leaves main(): nothing after the call at 164/166 runs
TurnRaises ==
    /\ response' = None
    /\ rendered' = "exception"
    /\ pc' = "idle"
    /\ UNCHANGED <<messages, session_history>>

\* The model returns a final answer
ModelFinish(o) ==
    /\ pc = "plan"
    /\ iterations < max_iterations
    /\ decision' = [kind |-> "finish", tool |-> None, output |-> o]
    /\ CompleteTurn(o)
    /\ UNCHANGED <<uiVars, input_shown, event, user_input, agent_input, tools, iterations,
                   tool_run, observation, searchVars,
                   returned, session_id, memVars>>

\* The model call raises
ModelRaises ==
    /\ pc = "plan"
    /\ iterations < max_iterations
    /\ decision' = [kind |-> "error", tool |-> None, output |-> None]
    /\ TurnRaises
    /\ UNCHANGED <<uiVars, input_shown, event, user_input, agent_input, tools, iterations,
                   tool_run, observation, searchVars,
                   returned, session_id, memVars>>

\* The model requests a registered tool, which returns obs
ActTool(name, obs) ==
    /\ pc = "plan"
    /\ iterations < max_iterations
    /\ InRegistry(name, tools)
    /\ obs \in ToolOutputs(name)
    /\ decision' = [kind |-> "tool", tool |-> name, output |-> None]
    /\ tool_run' = [tool |-> name, raised |-> FALSE]
    /\ observation' = obs
    /\ iterations' = iterations + 1
    /\ UNCHANGED <<messages, session_history, uiVars, input_shown, event, pc,
                   user_input,
                   agent_input, tools, response, rendered, searchVars,
                   returned, session_id, memVars>>

\* The model requests a registered tool, whose call raises
ActToolRaises(name) ==
    /\ pc = "plan"
    /\ iterations < max_iterations
    /\ InRegistry(name, tools)
    /\ decision' = [kind |-> "tool", tool |-> name, output |-> None]
    /\ tool_run' = [tool |-> name, raised |-> TRUE]
    /\ TurnRaises
    /\ UNCHANGED <<uiVars, input_shown, event, user_input, agent_input, tools, iterations,
                   observation, searchVars, returned, session_id, memVars>>

\* The model requests a name that is not in the registry
ActUnknownTool(name) ==
    /\ pc = "plan"
    /\ iterations < max_iterations
    /\ ~InRegistry(name, tools)
    /\ decision' = [kind |-> "tool", tool |-> name, output |-> None]
    /\ tool_run' = NoRun
    /\ observation' = InvalidToolObservation(name, tools)
    /\ iterations' = iterations + 1
    /\ UNCHANGED <<messages, session_history, uiVars, input_shown, event, pc,
                   user_input,
                   agent_input, tools, response, rendered, searchVars,
                   returned, session_id, memVars>>

\* The iteration budget is used up
StopIterations ==
    /\ pc = "plan"
    /\ iterations >= max_iterations
    /\ decision' = [kind |-> "stopped", tool |-> None, output |-> StoppedResponse]
    /\ CompleteTurn(StoppedResponse)
    /\ UNCHANGED <<uiVars, input_shown, event, user_input, agent_input, tools, iterations,
                   tool_run, observation, searchVars,
                   returned, session_id, memVars>>

Next ==
    \/ \E o \in Keys, s \in Keys, ok \in BOOLEAN : EnterKeys(o, s, ok)
    \/ \E n \in 0..1, ok \in BOOLEAN : UploadPdf(n, ok)
    \/ ClickReset
    \/ \E ok \in BOOLEAN : Rerun(ok)
    \/ \E u \in UserInputs : SubmitInput(u)
    \/ \E u \in UserInputs : SubmitInputSetupFails(u)
    \/ \E o \in Answers : ModelFinish(o)
    \/ ModelRaises
    \/ \E name \in ToolRequests : \E obs \in ToolOutputs(name) : ActTool(name, obs)
    \/ \E name \in ToolRequests : ActToolRaises(name)
    \/ \E name \in ToolRequests : ActUnknownTool(name)
    \/ StopIterations

Spec == Init /\ [][Next]_vars

----------------------------------------------------------------------------
(* Session Memory on its own: get_session_history and add_message are      *)
(* called for the session ids of a script of append calls drawn at the     *)
(* start; lookups of any id happen in between.  No reset takes place.      *)

MemoryMessages == { Message(r, c) : r \in Roles, c \in {<<Text("q1")>>, <<Text("a1")>>} }

AppendCalls == [id : SessionIds, msg : MemoryMessages]

AppendScripts == UNION { [1..n -> AppendCalls] : n \in 0..MaxAppends }

InitMemory ==
    /\ messages = << >>
    /\ session_history = EmptyDict
    /\ OPENAI_API = ""
    /\ SERPAPI_API = ""
    /\ pdf_docs = 0
    /\ event = "load"
    /\ pc = "memory"
    /\ user_input = None
    /\ agent_input = << >>
    /\ tools = << >>
    /\ iterations = 0
    /\ decision = NoDecision
    /\ tool_run = NoRun
    /\ observation = << >>
    /\ response = None
    /\ rendered = "warning"
    /\ input_shown = FALSE
    /\ results = [has_organic |-> FALSE, organic_results |-> << >>]
    /\ formatted = << >>
    /\ returned = ChatMessageHistory
    /\ session_id = None
    /\ appends \in AppendScripts
    /\ done = 0

\* get_session_history(id) alone
MemGet(id) ==
    /\ pc = "memory"
    /\ session_history' = get_session_history(session_history, id)
    /\ returned' = session_history'[id]
    /\ session_id' = id
    /\ event' = "get"
    /\ UNCHANGED <<messages, uiVars, pc, turnVars, rendered, input_shown, searchVars,
                   memVars>>

\* get_session_history(id).add_message(msg), as at lines 160 and 171
MemAppend ==
    /\ pc = "memory"
    /\ done < Len(appends)
    /\ LET c == appends[done + 1]
           sh == get_session_history(session_history, c.id)
       IN /\ session_history' = [sh EXCEPT ![c.id] = add_message(@, c.msg)]
          /\ returned' = session_history'[c.id]
          /\ session_id' = c.id
    /\ done' = done + 1
    /\ event' = "append"
    /\ UNCHANGED <<messages, uiVars, pc, turnVars, rendered, input_shown, searchVars,
                   appends>>

NextMemory ==
    \/ \E id \in SessionIds : MemGet(id)
    \/ MemAppend

SpecMemory == InitMemory /\ [][NextMemory]_vars

----------------------------------------------------------------------------
(* run_with_source on its own: the provider response is drawn at the start *)

ResultVariants == {Result1, Result2, Result3}

ProviderResponses ==
    { [has_organic |-> FALSE, organic_results |-> << >>] } \cup
    { [has_organic |-> TRUE, organic_results |-> o] :
        o \in UNION { [1..n -> ResultVariants] : n \in 0..MaxOrganic } }

InitSearch ==
    /\ messages = << >>
    /\ session_history = EmptyDict
    /\ OPENAI_API = ""
    /\ SERPAPI_API = ""
    /\ pdf_docs = 0
    /\ event = "load"
    /\ pc = "search"
    /\ user_input = None
    /\ agent_input = << >>
    /\ tools = << >>
    /\ iterations = 0
    /\ decision = NoDecision
    /\ tool_run = NoRun
    /\ observation = << >>
    /\ response = None
    /\ rendered = "warning"
    /\ input_shown = FALSE
    /\ results \in ProviderResponses
    /\ formatted = << >>
    /\ returned = ChatMessageHistory
    /\ session_id = None
    /\ appends = << >>
    /\ done = 0

RunWithSource ==
    /\ pc = "search"
    /\ formatted' = run_with_source(results)
    /\ pc' = "searched"
    /\ UNCHANGED <<messages, session_history, uiVars, event, turnVars, rendered,
                   input_shown,
                   results, returned, session_id, memVars>>

NextSearch == RunWithSource

SpecSearch == InitSearch /\ [][NextSearch]_vars

----------------------------------------------------------------------------
(* Helpers of the properties *)

Range(f) == { f[i] : i \in DOMAIN f }

Last(q) == q[Len(q)]

Min(a, b) == IF a < b THEN a ELSE b

Default(sh) == HistoryOf(sh, DefaultSession)

\* The token sequence q cut at the tokens equal to sep
RECURSIVE SplitAt(_, _)
SplitAt(q, sep) ==
    IF \A i \in 1..Len(q) : q[i] # sep THEN <<q>>
    ELSE LET i == CHOOSE j \in 1..Len(q) :
                    q[j] = sep /\ \A k \in 1..(j - 1) : q[k] # sep
         IN <<SubSeq(q, 1, i - 1)>> \o SplitAt(SubSeq(q, i + 1, Len(q)), sep)

\* The number written by a sequence of hex digit pieces
RECURSIVE HexValue(_)
HexValue(ds) ==
    IF ds = << >> THEN 0
    ELSE 16 * HexValue(SubSeq(ds, 1, Len(ds) - 1))
           + ((CHOOSE d \in 1..16 : HexDigits[d] = ds[Len(ds)].s) - 1)

\* The character a hex escape of code point cp stands for
Escaped(cp) ==
    IF cp < 128 THEN AsciiChar(cp) ELSE UniChar(cp, FALSE)

\* What is read where a literal is not one repr() writes
Unreadable == Text("<unreadable>")

\* The text written between the quotes q of a string literal as repr()
\* writes it, with the escapes undone.  Outside an escape only printable
\* characters other than q may stand; anything else is unreadable.
RECURSIVE Unescape(_, _)
Unescape(inner, q) ==
    IF inner = << >> THEN << >>
    ELSE IF Head(inner) # Backslash
         THEN IF Head(inner).k = "char" /\ (~Head(inner).p \/ Head(inner) = q)
              THEN <<Unreadable>>
              ELSE <<Head(inner)>> \o Unescape(Tail(inner), q)
    ELSE IF Len(inner) < 2 THEN <<Unreadable>>
    ELSE LET c == inner[2]
             after(k) == SubSeq(inner, k + 1, Len(inner))
             hex(w) == IF Len(inner) < 2 + w THEN <<Unreadable>>
                       ELSE <<Escaped(HexValue(SubSeq(inner, 3, 2 + w)))>>
                              \o Unescape(after(2 + w), q)
         IN IF c = Text("n") THEN <<Newline>> \o Unescape(after(2), q)
            ELSE IF c = Text("t") THEN <<Tab>> \o Unescape(after(2), q)
            ELSE IF c = Text("r") THEN <<Return>> \o Unescape(after(2), q)
            ELSE IF c = Text("x") THEN hex(2)
            ELSE IF c = Text("u") THEN hex(4)
            ELSE IF c = Text("U") THEN hex(8)
            ELSE IF c \in {Backslash, Apostrophe, DoubleQuote}
                 THEN <<c>> \o Unescape(after(2), q)
            ELSE <<Unreadable>>

\* The text a Python string literal stands for
Unrepr(lit) ==
    IF Len(lit) < 2 \/ lit[1] # lit[Len(lit)]
         \/ lit[1] \notin {Apostrophe, DoubleQuote}
    THEN <<Unreadable>>
    ELSE Unescape(SubSeq(lit, 2, Len(lit) - 1), lit[1])

\* The chat input at the head of an agent input
InputIn(ain) == SplitAt(ain, PrevHeader)[1]

\* The (role, content) pairs read back from the text after the header of
\* an agent input: "[" d1 ", " d2 ... "]", each d being
\* "{'role': " literal ", 'content': " literal "}"
PrevMessagesIn(ain) ==
    LET parts == SplitAt(ain, PrevHeader)
    IN IF Len(parts) < 2 THEN << >>
       ELSE LET dicts == SplitAt(SubSeq(parts[2], 2, Len(parts[2]) - 1),
                                     Text(", "))
            IN [j \in 1..Len(dicts) |->
                  [role |-> Unrepr(SubSeq(dicts[j], 2, 4))[1].s,
                   content |-> Unrepr(SubSeq(dicts[j], 6, Len(dicts[j]) - 1))]]

\* The messages of the first n append calls that name session id, in call order
RECURSIVE Appended(_, _, _)
Appended(calls, n, id) ==
    IF n = 0 THEN << >>
    ELSE IF calls[n].id = id
         THEN Append(Appended(calls, n - 1, id), calls[n].msg)
         ELSE Appended(calls, n - 1, id)

\* A step of a running turn that ends it
TurnEnds == pc = "plan" /\ pc' = "idle"

----------------------------------------------------------------------------
(* Properties *)

\* C1: a turn in which the agent returns a final answer grows the session's
\* history by exactly two messages, the user message holding the raw chat
\* input and then the assistant message holding the final answer; the value
\* returned for display is that final answer and it is what the page shows
\* last.
C1_SuccessfulTurnRecorded ==
    [][ (TurnEnds /\ decision'.kind = "finish") =>
          /\ Default(session_history') =
                Default(session_history) \o
                  << Message("user", user_input),
                     Message("assistant", decision'.output) >>
          /\ response' = decision'.output
          /\ rendered' = "chat"
          /\ Last(messages') = Message("assistant", decision'.output) ]_vars

\* A second turn ended with a final answer after the agent had used a tool
C1_Witness ==
    /\ pc = "idle"
    /\ decision.kind = "finish"
    /\ observation # << >>
    /\ Len(Default(session_history)) = 4
    /\ response \in Answers

\* C2 (as claimed): when the model call or a tool call raises, the history
\* is left as it was and the turn ends with a failure message, not with the
\* exception leaving the script.
C2_FailureIsReported ==
    [][ (TurnEnds /\ (decision'.kind = "error" \/ tool_run'.raised)) =>
          /\ Default(session_history') = Default(session_history)
          /\ rendered' # "exception" ]_vars

\* C3: with no reset, after the first n append calls every session's history
\* is exactly the messages appended to it, in call order, and a lookup of an
\* id returns that same history.
C3_InsertionOrder ==
    /\ \A id \in SessionIds :
          HistoryOf(session_history, id) = Appended(appends, done, id)
    /\ event \in {"get", "append"} =>
          /\ session_id \in DOMAIN session_history
          /\ returned.messages = Appended(appends, done, session_id)

\* Three appends were made, and a lookup returned a history of two or more
C3_Witness ==
    /\ done = 3
    /\ event = "get"
    /\ Len(returned.messages) >= 2
    /\ \E i \in 1..(Len(returned.messages) - 1) :
          returned.messages[i] # returned.messages[i + 1]

\* C4 (as claimed): the reset leaves every session's history empty and
\* changes nothing but the session memory.
C4_ResetOnlySessionMemory ==
    [][ event' = "reset" =>
          /\ \A id \in SessionIds :
                HistoryOf(get_session_history(session_history', id), id) = << >>
          /\ UNCHANGED <<messages, uiVars>> ]_vars

\* C4 (amended): the reset leaves every session's history empty, empties
\* the displayed message list as well, and leaves the keys and the uploaded
\* files alone; a turn started while the histories are still empty hands
\* the agent the chat input only.
C4_ResetClearsConversation ==
    /\ [][ event' = "reset" =>
             /\ \A id \in SessionIds :
                   HistoryOf(get_session_history(session_history', id), id) = << >>
             /\ messages' = << >>
             /\ UNCHANGED uiVars ]_vars
    /\ [][ (pc # "plan" /\ pc' = "plan"
               /\ \A id \in SessionIds : HistoryOf(session_history, id) = << >>) =>
             agent_input' = user_input' ]_vars

\* The reset was clicked after a turn that had seen earlier messages
C4_Witness ==
    /\ event = "reset"
    /\ returned.messages # << >>
    /\ messages = << >>

\* C5: while a turn runs, the agent's input is the chat input alone when the
\* session's history is empty, and otherwise the chat input followed by
\* every recorded message in recorded order: the two messages of each
\* earlier turn that was recorded.
C5_AgentSeesWholeHistory ==
    pc = "plan" =>
        LET hist == Default(session_history)
        IN /\ InputIn(agent_input) = user_input
           /\ hist = << >> => agent_input = user_input
           /\ hist # << >> => Len(SplitAt(agent_input, PrevHeader)) = 2
           /\ PrevMessagesIn(agent_input) = hist
           /\ PrevMessagesIn(agent_input) = messages
           /\ Len(PrevMessagesIn(agent_input)) % 2 = 0

\* A third turn is running and its input carries four earlier messages,
\* among them texts with an apostrophe, a tab, a newline, a carriage
\* return, a backslash, quotes and characters that are not printable
C5_Witness ==
    /\ pc = "plan"
    /\ Len(PrevMessagesIn(agent_input)) = 4
    /\ Len(messages) = 4
    /\ messages[1].content = <<Text("it"), Apostrophe, Text("s")>>
    /\ Return \in Range(messages[2].content)
    /\ UniChar(8204, FALSE) \in Range(messages[2].content)
    /\ messages[3].content = <<Text("col1"), Tab, Text("col2")>>
    /\ UniChar(917505, FALSE) \in Range(messages[4].content)
    /\ UniChar(233, TRUE) \in Range(messages[4].content)

\* C6 (as claimed): when the web search tool's call raises, the loop goes on
\* with a failure observation and the turn does not end in an exception.
C6_SearchFailureObserved ==
    [][ (pc = "plan" /\ tool_run'.tool = "web_search" /\ tool_run'.raised) =>
          /\ pc' = "plan"
          /\ observation' # << >>
          /\ rendered' # "exception" ]_vars

\* C7: run_with_source returns the "\n"-joined renderings of the first
\* min(n, 5) organic results in provider order, each with title, source and
\* snippet, and with the link exactly when the result has one; with no
\* result it returns the no-results sentence; it never returns "".
C7_TopFiveRendered ==
    pc = "searched" =>
        LET organic == IF results.has_organic THEN results.organic_results
                       ELSE << >>
            n == Len(organic)
            lines == SplitAt(formatted, "\n")
        IN /\ formatted # << >>
           /\ n = 0 => formatted = <<NoResults>>
           /\ n > 0 =>
                /\ Len(lines) = Min(n, 5)
                /\ \A i \in 1..Len(lines) :
                      LET r == organic[i]
                          e == lines[i]
                          hasLink == r.link # None /\ r.link # ""
                      IN /\ e[2] = r.title
                         /\ e[Len(e) - 2] = r.source
                         /\ e[Len(e)] = r.snippet
                         /\ hasLink => (Len(e) = 8 /\ e[4] = r.link)
                         /\ ~hasLink => Len(e) = 6

\* Six results of all three kinds were given and five lines came back
C7_Witness ==
    /\ pc = "searched"
    /\ Len(results.organic_results) = 6
    /\ Range(results.organic_results) = ResultVariants
    /\ Len(SplitAt(formatted, "\n")) = 5

\* C8 (as claimed): a turn that uses up the iteration budget without a
\* final answer ends as a failure and is not recorded as an answered turn.
C8_BudgetExhaustedIsFailure ==
    [][ (TurnEnds /\ iterations >= max_iterations) =>
          /\ messages' = messages
          /\ Default(session_history') = Default(session_history)
          /\ response' # StoppedResponse ]_vars

\* C9: when the model requests a tool whose name is not among the turn's
\* tools, no registered tool runs, the observation fed back names the
\* unknown tool, the loop is back at its decision point, and nothing is
\* raised or recorded.
C9_UnknownToolObserved ==
    [][ (pc = "plan" /\ decision'.kind = "tool"
           /\ decision'.tool \notin Range(tools)) =>
          /\ tool_run' = NoRun
          /\ pc' = "plan"
          /\ observation'[1] = decision'.tool
          /\ observation'[2] = " is not a valid tool, try one of ["
          /\ SubSeq(observation', 3, Len(observation') - 1) =
                Join(", ", [i \in 1..Len(tools) |-> <<tools[i]>>])
          /\ rendered' = rendered
          /\ UNCHANGED <<messages, session_history>> ]_vars

\* pdf_search was requested in a turn without uploaded files
C9_Witness ==
    /\ pc = "plan"
    /\ pdf_docs = 0
    /\ decision.kind = "tool"
    /\ decision.tool = "pdf_search"
    /\ observation[1] = "pdf_search"
    /\ tools = <<"web_search">>

====
